---- MODULE Spec2Model ----
(***************************************************************************)
(* path2md: directory traversal and file admission (list_files), rendering *)
(* (read_and_fence, concatenate_markdown) and per-file output writing      *)
(* (write_to_file) of src/path2md/cli.py (0.4.0) and src/path2md.py        *)
(* (0.3.1).                                                                *)
(*                                                                         *)
(* Text is a sequence of tokens.  Every character the code treats          *)
(* specially (the path separator, the dot, the asterisk, the newline, the  *)
(* blank) is a token of its own; any other token is a run of ordinary      *)
(* characters that contains none of them.                                  *)
(***************************************************************************)
EXTENDS Integers, Sequences, FiniteSets, TLC

(***************************************************************************)
(* Bounds of the model.                                                    *)
(***************************************************************************)
TreeDepth == 2
MaxDepthArg == 2
MaxSizeArg == 2
MaxIgnoreFiles == 2
MaxFiles == 2
MaxContentLen == 3
MaxTextLen == 4
MaxThreshold == 2

(***************************************************************************)
(* Program constants.                                                      *)
(***************************************************************************)
block_size == 1024
DefaultMaxSize == 102400

Sep == "/"
Dot == "."

(***************************************************************************)
(* Sequence helpers (Python list / str primitives).                        *)
(***************************************************************************)
Count(s, ch) == Cardinality({i \in DOMAIN s : s[i] = ch})

Last(s) == s[Len(s)]

Reverse(s) == [i \in 1..Len(s) |-> s[Len(s) + 1 - i]]

Range(s) == {s[i] : i \in DOMAIN s}

\* all orderings of a finite set, as sequences without repetition
Orders(S) == {s \in [1..Cardinality(S) -> S] : \A i, j \in 1..Cardinality(S) : s[i] = s[j] => i = j}

\* index of the last occurrence of ch in s, 0 when absent (str.rfind + 1)
RFind(s, ch) == IF \E i \in DOMAIN s : s[i] = ch
                THEN CHOOSE i \in DOMAIN s : s[i] = ch /\ \A j \in DOMAIN s : s[j] = ch => j <= i
                ELSE 0

(***************************************************************************)
(* os.path primitives on token sequences.                                  *)
(***************************************************************************)
OsPathJoin(p, name) == IF Len(p) > 0 /\ Last(p) = Sep THEN p \o name ELSE p \o <<Sep>> \o name

BaseName(p) == SubSeq(p, RFind(p, Sep) + 1, Len(p))

\* os.path.relpath(p, start) for p below start
RelPath(p, start) ==
    LET rest == SubSeq(p, Len(start) + 1, Len(p))
    IN  IF Len(rest) > 0 /\ rest[1] = Sep THEN Tail(rest) ELSE rest

\* os.path.splitext(name)[1][1:] : the text after the last dot, provided a
\* character other than a dot precedes that dot
Extension(name) ==
    LET b == BaseName(name)
        d == RFind(b, Dot)
    IN  IF d > 0 /\ (\E i \in 1..(d - 1) : b[i] # Dot) THEN SubSeq(b, d + 1, Len(b)) ELSE <<>>

(***************************************************************************)
(* Optional values (None) and ignore matchers.  The matching engine is an  *)
(* external capability: a matcher is the set of base names it ignores,     *)
(* together with where it was loaded from.                                 *)
(***************************************************************************)
None == [isNone |-> TRUE, val |-> 0]

NoExtensions == [isNone |-> TRUE, val |-> {}]

Some(v) == [isNone |-> FALSE, val |-> v]

NoMatcher == [kind |-> "none", src |-> <<>>, names |-> {}]

GlobalMatcher(names) == [kind |-> "global", src |-> <<>>, names |-> names]

LocalMatcher(rel, names) == [kind |-> "local", src |-> rel, names |-> names]

Matches(m, path) == BaseName(path) \in m.names

GitignoreName == <<Dot, "gitignore">>

(***************************************************************************)
(* The directory trees and the arguments list_files is run on.             *)
(***************************************************************************)
B == <<"b">>
C == <<"c">>
F == <<"f", Dot, "py">>
X == <<"x", Dot, "txt">>

DirNames == {B, C}

AllFileNames == <<F, X, GitignoreName>>

Directories == {<<Sep>>, <<Sep, "r">>}

SeqsUpTo(S, n) == UNION {[1..k -> S] : k \in 0..n}

\* a spine of directories named b, each with a sibling leaf named c
TreeDirs == {d \in SeqsUpTo(DirNames, TreeDepth) : \A i \in 1..(Len(d) - 1) : d[i] = B}

DefaultAttr == [size |-> 1, nulAt |-> 0, statErr |-> FALSE, readErr |-> FALSE]

Sizes == (0..(MaxSizeArg + 1)) \cup {block_size, block_size + 1}

NulPositions == {0, 1, MaxSizeArg, block_size, block_size + 1}

AttrSet ==
    {a \in [size : Sizes, nulAt : NulPositions, statErr : {FALSE}, readErr : {FALSE}] :
        a.nulAt <= a.size}
    \cup {[DefaultAttr EXCEPT !.statErr = TRUE], [DefaultAttr EXCEPT !.readErr = TRUE]}

\* every directory holds f.py and x.txt; the directories of igdirs hold a
\* .gitignore as well; x.txt of directory c has the attributes special
MkFs(igdirs, frev, special) ==
    [dirs   |-> TreeDirs,
     files  |-> [d \in TreeDirs |-> {F, X} \cup (IF d \in igdirs THEN {GitignoreName} ELSE {})],
     ignore |-> [d \in TreeDirs |-> IF d = <<>> THEN {X, C} ELSE {X}],
     frev   |-> frev,
     attr   |-> [k \in TreeDirs \X Range(AllFileNames) |->
                   IF k = <<<<C>>, X>> THEN special ELSE DefaultAttr]]

DefaultCfg ==
    [directory |-> <<Sep, "r">>, extensions |-> NoExtensions, max_depth |-> None,
     omit_dirs |-> {}, whitelist_files |-> {}, whitelist_dirs |-> {}, whitelist |-> {},
     global_gitignore_matcher |-> NoMatcher, obey_gitignores |-> FALSE,
     max_size |-> DefaultMaxSize]

DepthArgs == {None} \cup {Some(n) : n \in 0..MaxDepthArg}

ScnDepth ==
    {[cfg |-> [DefaultCfg EXCEPT !.directory = d, !.max_depth = m],
      fs  |-> MkFs({}, r, DefaultAttr)] : d \in Directories, m \in DepthArgs, r \in BOOLEAN}

ScnIgnore ==
    {[cfg |-> [DefaultCfg EXCEPT !.obey_gitignores = o, !.global_gitignore_matcher = g],
      fs  |-> MkFs(ig, FALSE, DefaultAttr)] :
        o \in BOOLEAN, g \in {NoMatcher, GlobalMatcher({F, C})},
        ig \in {s \in SUBSET TreeDirs : Cardinality(s) <= MaxIgnoreFiles}}

ScnWhitelist ==
    {[cfg |-> [DefaultCfg EXCEPT !.whitelist_dirs = wd, !.omit_dirs = od, !.whitelist = w,
                                 !.whitelist_files = wf],
      fs  |-> MkFs({}, FALSE, DefaultAttr)] :
        wd \in {{}, {B}, {B, C}}, od \in SUBSET DirNames,
        w \in {{}, {B, F}, {C, B \o <<Sep>> \o X}}, wf \in {{}, {F}}}

ScnFileWhitelist ==
    {[cfg |-> [DefaultCfg EXCEPT !.whitelist_files = wf, !.directory = d],
      fs  |-> MkFs({}, r, DefaultAttr)] :
        wf \in (SUBSET Range(AllFileNames)) \ {{}}, d \in Directories, r \in BOOLEAN}

ScnAdmit ==
    {[cfg |-> [DefaultCfg EXCEPT !.max_size = ms, !.extensions = e],
      fs  |-> MkFs({}, FALSE, a)] :
        ms \in {MaxSizeArg, DefaultMaxSize},
        e \in {NoExtensions, Some({<<"py">>}), Some({<<"txt">>}), Some({})},
        a \in AttrSet}

Scenarios == ScnDepth \cup ScnIgnore \cup ScnWhitelist \cup ScnFileWhitelist \cup ScnAdmit

VARIABLES cfg, fs, pc, walk_stack, root, dirs, files, gitignore_stack,
          stack_len_before, current_gitignore, file_list, visited,
          rcfg, rfiles, rpc, ridx, units, markdown_content, chunks, written,
          tin, tn, tout, tpc

walkVars == <<cfg, fs, pc, walk_stack, root, dirs, files, gitignore_stack,
              stack_len_before, current_gitignore, file_list, visited>>

renderVars == <<rcfg, rfiles, rpc, ridx, units, markdown_content, chunks, written>>

xformVars == <<tin, tn, tout, tpc>>

vars == <<walkVars, renderVars, xformVars>>

(***************************************************************************)
(* load_gitignore: the matcher of the directory's .gitignore, if present.  *)
(***************************************************************************)
load_gitignore(rel) ==
    IF GitignoreName \in fs.files[rel] THEN LocalMatcher(rel, fs.ignore[rel]) ELSE NoMatcher

(***************************************************************************)
(* is_binary_file: a NUL byte among the first block_size bytes; a read     *)
(* failure counts as binary.                                               *)
(***************************************************************************)
is_binary_file(a) ==
    IF a.readErr THEN TRUE
    ELSE LET chunkLen == IF a.size < block_size THEN a.size ELSE block_size
         IN  a.nulAt # 0 /\ a.nulAt <= chunkLen

(***************************************************************************)
(* list_files of src/path2md/cli.py, one step at a time.                   *)
(***************************************************************************)

\* line 203: the depth of a walked directory, counted in path separators
current_depth(path) == Count(path, Sep) - Count(cfg.directory, Sep)

\* line 204: the depth limit stops the visit of this directory
DepthPruned(depth, max_depth) == ~max_depth.isNone /\ depth >= max_depth.val

\* lines 212-216: push the directory's own matcher, if any
PushLocal(stack, rel, obey) ==
    IF obey /\ load_gitignore(rel).kind # "none" THEN Append(stack, load_gitignore(rel)) ELSE stack

\* line 219: the active matcher is the top of the stack
ActiveMatcher(stack) == IF Len(stack) > 0 THEN Last(stack) ELSE NoMatcher

KeepDirByNameOmitToo(d, whitelist_dirs, whitelist, omit_dirs) ==
    /\ d \notin omit_dirs
    /\ IF whitelist_dirs # {} THEN d \in whitelist_dirs
       ELSE IF whitelist # {} THEN d \in whitelist
       ELSE TRUE

\* lines 222-229: directory whitelist, else combined whitelist, else omit-dirs
KeepDirByName(d, whitelist_dirs, whitelist, omit_dirs) ==
    IF whitelist_dirs # {} THEN d \in whitelist_dirs
    ELSE IF whitelist # {} THEN d \in whitelist
    ELSE d \notin omit_dirs

\* lines 232-233: the active matcher drops the child directories it matches
KeepDirByIgnore(m, path) == m.kind = "none" \/ ~Matches(m, path)

WhitelistOkByPath(file, relative_path, whitelist_files, whitelist) ==
    /\ (whitelist_files = {} \/ relative_path \in whitelist_files)
    /\ (whitelist = {} \/ relative_path \in whitelist \/ file \in whitelist)

\* lines 240-244: file-name whitelist and combined whitelist
WhitelistOk(file, relative_path, whitelist_files, whitelist) ==
    /\ (whitelist_files = {} \/ file \in whitelist_files)
    /\ (whitelist = {} \/ relative_path \in whitelist \/ file \in whitelist)

\* lines 246-247: the active matcher rejects the files it matches
IgnoreOk(m, file_path) == m.kind = "none" \/ ~Matches(m, file_path)

SizeOkStrict(size, max_size) == size < max_size

\* line 249: files larger than max_size are skipped
SizeOk(size, max_size) == ~(size > max_size)

\* lines 256-261: extension gate, open when no extension set is configured
ExtensionOk(file, extensions) == extensions.isNone \/ Extension(file) \in extensions.val

\* lines 235-261 for one file: "skip", "raise" (os.path.getsize raises,
\* nothing catches it) or "append"
FileOutcome(file, rootrec, m) ==
    LET file_path == OsPathJoin(rootrec.path, file)
        relative_path == RelPath(file_path, cfg.directory)
        a == fs.attr[<<rootrec.rel, file>>]
    IN  IF ~WhitelistOk(file, relative_path, cfg.whitelist_files, cfg.whitelist) THEN "skip"
        ELSE IF ~IgnoreOk(m, file_path) THEN "skip"
        ELSE IF a.statErr THEN "raise"
        ELSE IF ~SizeOk(a.size, cfg.max_size) THEN "skip"
        ELSE IF is_binary_file(a) THEN "skip"
        ELSE IF ExtensionOk(file, cfg.extensions) THEN "append"
        ELSE "skip"

PopLocalNever(stack, before, obey) == stack

\* lines 264-266: pop the matchers pushed for the current directory
PopLocal(stack, before, obey) == IF obey THEN SubSeq(stack, 1, before) ELSE stack

\* the entries os.walk reports for a directory
ChildDirs(rel) == {d \in DirNames : Append(rel, d) \in fs.dirs}

ListFiles(rel) ==
    LET all == IF fs.frev THEN Reverse(AllFileNames) ELSE AllFileNames
        Present(n) == n \in fs.files[rel]
    IN  SelectSeq(all, Present)

\* lines 202-233: os.walk yields the next directory; depth check, push of
\* the local matcher, choice of the active matcher, filtering of dirs
VisitDir ==
    /\ pc = "walk"
    /\ walk_stack # <<>>
    /\ LET top == Last(walk_stack)
           rest == SubSeq(walk_stack, 1, Len(walk_stack) - 1)
       IN  IF DepthPruned(current_depth(top.path), cfg.max_depth)
           THEN /\ walk_stack' = rest
                /\ UNCHANGED <<pc, root, dirs, files, gitignore_stack, stack_len_before,
                               current_gitignore, file_list, visited>>
           ELSE \E order \in Orders(ChildDirs(top.rel)) :
                LET pushed == PushLocal(gitignore_stack, top.rel, cfg.obey_gitignores)
                    active == ActiveMatcher(pushed)
                    Keep(d) == /\ KeepDirByName(d, cfg.whitelist_dirs, cfg.whitelist, cfg.omit_dirs)
                               /\ KeepDirByIgnore(active, OsPathJoin(top.path, d))
                IN  /\ walk_stack' = rest
                    /\ root' = top
                    /\ stack_len_before' = Len(gitignore_stack)
                    /\ gitignore_stack' = pushed
                    /\ current_gitignore' = active
                    /\ dirs' = SelectSeq(order, Keep)
                    /\ files' = ListFiles(top.rel)
                    /\ visited' = visited \cup {top.rel}
                    /\ pc' = "files"
                    /\ UNCHANGED file_list
    /\ UNCHANGED <<cfg, fs>>
    /\ UNCHANGED <<renderVars, xformVars>>

\* lines 235-261: one iteration of the loop over the directory's files
ProcessFile ==
    /\ pc = "files"
    /\ files # <<>>
    /\ LET file == Head(files)
           outcome == FileOutcome(file, root, current_gitignore)
       IN  /\ files' = Tail(files)
           /\ file_list' = IF outcome = "append"
                           THEN Append(file_list, OsPathJoin(root.path, file))
                           ELSE file_list
           /\ pc' = IF outcome = "raise" THEN "raised" ELSE "files"
    /\ UNCHANGED <<cfg, fs, walk_stack, root, dirs, gitignore_stack, stack_len_before,
                   current_gitignore, visited>>
    /\ UNCHANGED <<renderVars, xformVars>>

\* lines 263-266, and os.walk scheduling the kept child directories
LeaveDir ==
    /\ pc = "files"
    /\ files = <<>>
    /\ gitignore_stack' = PopLocal(gitignore_stack, stack_len_before, cfg.obey_gitignores)
    /\ walk_stack' = walk_stack \o
           Reverse([i \in 1..Len(dirs) |->
                      [path |-> OsPathJoin(root.path, dirs[i]), rel |-> Append(root.rel, dirs[i])]])
    /\ pc' = "walk"
    /\ UNCHANGED <<cfg, fs, root, dirs, files, stack_len_before, current_gitignore,
                   file_list, visited>>
    /\ UNCHANGED <<renderVars, xformVars>>

\* line 268
Return ==
    /\ pc = "walk"
    /\ walk_stack = <<>>
    /\ pc' = "done"
    /\ UNCHANGED <<cfg, fs, walk_stack, root, dirs, files, gitignore_stack, stack_len_before,
                   current_gitignore, file_list, visited>>
    /\ UNCHANGED <<renderVars, xformVars>>

\* lines 185-200: the state of list_files before the walk starts
InitWalk(c, f) ==
    /\ cfg = c
    /\ fs = f
    /\ pc = "walk"
    /\ walk_stack = <<[path |-> c.directory, rel |-> <<>>]>>
    /\ root = [path |-> c.directory, rel |-> <<>>]
    /\ dirs = <<>>
    /\ files = <<>>
    /\ gitignore_stack = IF c.global_gitignore_matcher.kind # "none"
                         THEN <<c.global_gitignore_matcher>> ELSE <<>>
    /\ stack_len_before = 0
    /\ current_gitignore = NoMatcher
    /\ file_list = <<>>
    /\ visited = {}

\* no transform runs while list_files or the writer runs
XformIdle ==
    /\ tin = <<>>
    /\ tn = 0
    /\ tout = <<>>
    /\ tpc = "idle"

\* nothing is rendered or written while list_files runs
RenderIdle ==
    /\ rcfg = [omit_extensions |-> {}, omit_files |-> {}]
    /\ rfiles = <<>>
    /\ rpc = "idle"
    /\ ridx = 0
    /\ units = <<>>
    /\ markdown_content = <<>>
    /\ chunks = <<>>
    /\ written = <<>>

Init == (\E s \in Scenarios : InitWalk(s.cfg, s.fs)) /\ RenderIdle /\ XformIdle

Next == VisitDir \/ ProcessFile \/ LeaveDir \/ Return

Spec == Init /\ [][Next]_vars

(***************************************************************************)
(* Rendering and writing: read_and_fence, concatenate_markdown,            *)
(* sanitize_filename and write_to_file of src/path2md/cli.py.              *)
(***************************************************************************)
Star == "*"
NL == "\n"
SP == " "
\* the three-backtick fence marker, one token
Fence == "FENCE"
ErrText == "ERR"

Whitespace == {SP, NL, "\t"}

Stars == <<Star, Star>>

\* str.find + 1: the index of the first occurrence of sep in s, 0 if none
Find(s, sep) ==
    LET hits == {i \in 1..(Len(s) - Len(sep) + 1) : SubSeq(s, i, i + Len(sep) - 1) = sep}
    IN  IF hits = {} THEN 0 ELSE CHOOSE i \in hits : \A j \in hits : i <= j

\* str.split(sep)
RECURSIVE Split(_, _)
Split(s, sep) ==
    LET i == Find(s, sep)
    IN  IF i = 0 THEN <<s>>
        ELSE <<SubSeq(s, 1, i - 1)>> \o Split(SubSeq(s, i + Len(sep), Len(s)), sep)

\* str.strip()
Strip(s) ==
    LET keep == {i \in DOMAIN s : s[i] \notin Whitespace}
    IN  IF keep = {} THEN <<>>
        ELSE SubSeq(s, CHOOSE i \in keep : \A j \in keep : i <= j,
                       CHOOSE i \in keep : \A j \in keep : j <= i)

\* sep.join(parts)
RECURSIVE JoinWith(_, _)
JoinWith(parts, sep) ==
    IF Len(parts) = 0 THEN <<>>
    ELSE IF Len(parts) = 1 THEN parts[1]
    ELSE parts[1] \o sep \o JoinWith(Tail(parts), sep)

base_directory == <<Sep, "r">>

\* lines 331-358; the transforms (nocom, truncstr, truncln, maxlnspace) are off
read_and_fence(file, omit_extensions, omit_files) ==
    LET extension == Extension(file.path)
        relative_path == RelPath(file.path, base_directory)
        filename == BaseName(file.path)
    IN  IF extension \in omit_extensions \/ filename \in omit_files
        THEN Stars \o relative_path \o Stars \o <<SP, "(Source omitted to save space)", NL>>
        ELSE IF file.readable
        THEN Stars \o relative_path \o Stars \o <<NL, Fence>> \o extension \o <<NL>>
             \o file.content \o <<NL, Fence, NL>>
        ELSE Stars \o relative_path \o Stars
             \o <<SP, "(Error reading file:", SP, ErrText, ")", NL>>

NextUnitSkipErrors(us, file, omit_extensions, omit_files) ==
    IF file.readable THEN Append(us, read_and_fence(file, omit_extensions, omit_files)) ELSE us

\* line 366: the generator yields the next file's unit
NextUnit(us, file, omit_extensions, omit_files) ==
    Append(us, read_and_fence(file, omit_extensions, omit_files))

\* line 384: the replacement character, a token of its own in every name
Underscore == "_"

\* line 384: characters invalid on common filesystems become underscores
InvalidChars == {"<", ">", ":", "\"", Sep, "\\", "|", "?", Star}

sanitize_filename(filename) ==
    [i \in 1..Len(filename) |-> IF filename[i] \in InvalidChars THEN Underscore ELSE filename[i]]

\* lines 400-416 for one chunk: the write it causes, if any
ChunkWrites(rawchunk) ==
    LET chunk == Strip(rawchunk)
        i == Find(chunk, <<Star, Star, NL>>)
    IN  IF chunk = <<>> THEN <<>>
        ELSE IF i = 0 THEN <<>>
        ELSE LET file_path == Strip(SubSeq(chunk, 1, i - 1))
                 file_body == SubSeq(chunk, i + 3, Len(chunk))
             IN  <<[name |-> sanitize_filename(file_path) \o <<Dot, "md">>,
                    text |-> Stars \o file_path \o Stars \o <<NL>> \o file_body]>>

\* lines 365-377: read_and_fence of the next file
RenderFile ==
    /\ rpc = "render"
    /\ ridx < Len(rfiles)
    /\ ridx' = ridx + 1
    /\ units' = NextUnit(units, rfiles[ridx + 1], rcfg.omit_extensions, rcfg.omit_files)
    /\ UNCHANGED <<rcfg, rfiles, rpc, markdown_content, chunks, written>>
    /\ UNCHANGED <<walkVars, xformVars>>

\* line 365 and lines 393-399: the units are joined, and write_to_file
\* splits the document again
Concatenate ==
    /\ rpc = "render"
    /\ ridx = Len(rfiles)
    /\ markdown_content' = JoinWith(units, <<NL>>)
    /\ chunks' = Split(JoinWith(units, <<NL>>), <<NL, Star, Star>>)
    /\ rpc' = "write"
    /\ UNCHANGED <<rcfg, rfiles, ridx, units, written>>
    /\ UNCHANGED <<walkVars, xformVars>>

\* lines 400-416: one iteration of the loop over the chunks
WriteChunk ==
    /\ rpc = "write"
    /\ chunks # <<>>
    /\ written' = written \o ChunkWrites(Head(chunks))
    /\ chunks' = Tail(chunks)
    /\ UNCHANGED <<rcfg, rfiles, rpc, ridx, units, markdown_content>>
    /\ UNCHANGED <<walkVars, xformVars>>

WriteDone ==
    /\ rpc = "write"
    /\ chunks = <<>>
    /\ rpc' = "written"
    /\ UNCHANGED <<rcfg, rfiles, ridx, units, markdown_content, chunks, written>>
    /\ UNCHANGED <<walkVars, xformVars>>

\* the files handed to concatenate_markdown: distinct paths below the base
\* directory, one of them with any content up to MaxContentLen, or unreadable
RenderPaths == {base_directory \o <<Sep>> \o n : n \in {F, X, B \o <<Sep>> \o F, B \o <<Underscore>> \o F}}

Contents == SeqsUpTo({"x", NL, Star}, MaxContentLen)

FileVariants(p) ==
    {[path |-> p, content |-> c, readable |-> TRUE] : c \in Contents}
    \cup {[path |-> p, content |-> <<>>, readable |-> FALSE]}

PlainVariants(p) ==
    {[path |-> p, content |-> <<"x">>, readable |-> TRUE],
     [path |-> p, content |-> <<>>, readable |-> FALSE]}

RenderInputs ==
    {fl \in {<<f>> \o rest :
                f \in UNION {FileVariants(p) : p \in RenderPaths},
                rest \in SeqsUpTo(UNION {PlainVariants(p) : p \in RenderPaths}, MaxFiles - 1)} :
        \A i, j \in DOMAIN fl : fl[i].path = fl[j].path => i = j}

RenderCfgs ==
    {[omit_extensions |-> {}, omit_files |-> {}],
     [omit_extensions |-> {<<"txt">>}, omit_files |-> {}]}

WalkIdle ==
    /\ cfg = DefaultCfg
    /\ fs = MkFs({}, FALSE, DefaultAttr)
    /\ pc = "idle"
    /\ walk_stack = <<>>
    /\ root = [path |-> DefaultCfg.directory, rel |-> <<>>]
    /\ dirs = <<>>
    /\ files = <<>>
    /\ gitignore_stack = <<>>
    /\ stack_len_before = 0
    /\ current_gitignore = NoMatcher
    /\ file_list = <<>>
    /\ visited = {}

InitRender ==
    /\ WalkIdle
    /\ XformIdle
    /\ rcfg \in RenderCfgs
    /\ rfiles \in RenderInputs
    /\ rpc = "render"
    /\ ridx = 0
    /\ units = <<>>
    /\ markdown_content = <<>>
    /\ chunks = <<>>
    /\ written = <<>>

NextRender == RenderFile \/ Concatenate \/ WriteChunk \/ WriteDone

SpecRender == InitRender /\ [][NextRender]_vars

\* Output-dir runs over longer file lists: every file is plain, so that
\* each unit is written, and the paths are pairwise different
MaxWriteFiles == 3

WriteInputs ==
    {fl \in SeqsUpTo(UNION {PlainVariants(p) : p \in RenderPaths}, MaxWriteFiles) :
        \A i, j \in DOMAIN fl : fl[i].path = fl[j].path => i = j}

InitWrite ==
    /\ WalkIdle
    /\ XformIdle
    /\ rcfg \in RenderCfgs
    /\ rfiles \in WriteInputs
    /\ rpc = "render"
    /\ ridx = 0
    /\ units = <<>>
    /\ markdown_content = <<>>
    /\ chunks = <<>>
    /\ written = <<>>

SpecWrite == InitWrite /\ [][NextRender]_vars

(***************************************************************************)
(* list_files of src/path2md.py (0.3.1), one step at a time.  It walks     *)
(* pathlib paths, has no size or binary check, and pops the ignore stack   *)
(* only on entering a directory without an ignore file of its own.         *)
(***************************************************************************)

\* len(path.parts) of an absolute path: the root and every name on it
PartsLen(path) ==
    LET pieces == Split(path, <<Sep>>)
    IN  1 + Cardinality({i \in DOMAIN pieces : pieces[i] # <<>>})

\* line 61
current_depth031(path) == PartsLen(path) - PartsLen(cfg.directory)

\* lines 49-53
load_gitignore031(rel) ==
    IF GitignoreName \in fs.files[rel] THEN LocalMatcher(rel, fs.ignore[rel]) ELSE NoMatcher

\* line 72: the parent directory of the walked directory holds a .gitignore
\* (the parent of the walk's root lies outside the walked tree)
ParentHasGitignore(rel) ==
    IF rel = <<>> THEN fs.outer ELSE GitignoreName \in fs.files[SubSeq(rel, 1, Len(rel) - 1)]

\* lines 66-73: push the directory's own matcher; without one, pop the top
\* of a non-empty stack when the parent directory has a .gitignore
EnterStack031(stack, rel, obey) ==
    IF ~obey THEN stack
    ELSE IF load_gitignore031(rel).kind # "none" THEN Append(stack, load_gitignore031(rel))
    ELSE IF Len(stack) > 0 /\ ParentHasGitignore(rel) THEN SubSeq(stack, 1, Len(stack) - 1)
    ELSE stack

\* lines 87-100 for one file: "skip" or "append"
FileOutcome031(file, rootrec, m) ==
    LET file_path == OsPathJoin(rootrec.path, file)
        relative_path == RelPath(file_path, cfg.directory)
    IN  IF ~WhitelistOk(file, relative_path, cfg.whitelist_files, cfg.whitelist) THEN "skip"
        ELSE IF ~IgnoreOk(m, file_path) THEN "skip"
        ELSE IF Extension(file) \in cfg.extensions.val THEN "append"
        ELSE "skip"

\* lines 60-85: Path.walk yields the next directory
VisitDir031 ==
    /\ pc = "walk031"
    /\ walk_stack # <<>>
    /\ LET top == Last(walk_stack)
           rest == SubSeq(walk_stack, 1, Len(walk_stack) - 1)
       IN  IF DepthPruned(current_depth031(top.path), cfg.max_depth)
           THEN /\ walk_stack' = rest
                /\ UNCHANGED <<pc, root, dirs, files, gitignore_stack, stack_len_before,
                               current_gitignore, file_list, visited>>
           ELSE \E order \in Orders(ChildDirs(top.rel)) :
                LET entered == EnterStack031(gitignore_stack, top.rel, cfg.obey_gitignores)
                    active == ActiveMatcher(entered)
                    Keep(d) == /\ KeepDirByName(d, cfg.whitelist_dirs, cfg.whitelist, cfg.omit_dirs)
                               /\ KeepDirByIgnore(active, OsPathJoin(top.path, d))
                IN  /\ walk_stack' = rest
                    /\ root' = top
                    /\ stack_len_before' = Len(gitignore_stack)
                    /\ gitignore_stack' = entered
                    /\ current_gitignore' = active
                    /\ dirs' = SelectSeq(order, Keep)
                    /\ files' = ListFiles(top.rel)
                    /\ visited' = visited \cup {top.rel}
                    /\ pc' = "files031"
                    /\ UNCHANGED file_list
    /\ UNCHANGED <<cfg, fs>>
    /\ UNCHANGED <<renderVars, xformVars>>

\* lines 87-100: one iteration of the loop over the directory's files
ProcessFile031 ==
    /\ pc = "files031"
    /\ files # <<>>
    /\ file_list' = IF FileOutcome031(Head(files), root, current_gitignore) = "append"
                    THEN Append(file_list, OsPathJoin(root.path, Head(files)))
                    ELSE file_list
    /\ files' = Tail(files)
    /\ UNCHANGED <<cfg, fs, pc, walk_stack, root, dirs, gitignore_stack, stack_len_before,
                   current_gitignore, visited>>
    /\ UNCHANGED <<renderVars, xformVars>>

\* the end of the loop body: nothing is popped; Path.walk schedules the
\* kept child directories
LeaveDir031 ==
    /\ pc = "files031"
    /\ files = <<>>
    /\ walk_stack' = walk_stack \o
           Reverse([i \in 1..Len(dirs) |->
                      [path |-> OsPathJoin(root.path, dirs[i]), rel |-> Append(root.rel, dirs[i])]])
    /\ pc' = "walk031"
    /\ UNCHANGED <<cfg, fs, root, dirs, files, gitignore_stack, stack_len_before,
                   current_gitignore, file_list, visited>>
    /\ UNCHANGED <<renderVars, xformVars>>

\* line 102
Return031 ==
    /\ pc = "walk031"
    /\ walk_stack = <<>>
    /\ pc' = "done031"
    /\ UNCHANGED <<cfg, fs, walk_stack, root, dirs, files, gitignore_stack, stack_len_before,
                   current_gitignore, file_list, visited>>
    /\ UNCHANGED <<renderVars, xformVars>>

\* the trees of MkFs, with the fact whether the directory above the walk's
\* root holds a .gitignore
MkFs031(igdirs, outer) ==
    [dirs   |-> MkFs(igdirs, FALSE, DefaultAttr).dirs,
     files  |-> MkFs(igdirs, FALSE, DefaultAttr).files,
     ignore |-> MkFs(igdirs, FALSE, DefaultAttr).ignore,
     frev   |-> FALSE,
     attr   |-> MkFs(igdirs, FALSE, DefaultAttr).attr,
     outer  |-> outer]

Scn031 ==
    {[cfg |-> [DefaultCfg EXCEPT !.obey_gitignores = o, !.global_gitignore_matcher = g,
                                 !.max_depth = m,
                                 !.extensions = Some({<<"py">>, <<"txt">>})],
      fs  |-> MkFs031(ig, outer)] :
        o \in BOOLEAN, g \in {NoMatcher, GlobalMatcher({X})}, outer \in BOOLEAN,
        m \in {None, Some(MaxDepthArg)},
        ig \in {s \in SUBSET TreeDirs : Cardinality(s) <= MaxIgnoreFiles}}

\* lines 56-58
InitWalk031(c, f) ==
    /\ cfg = c
    /\ fs = f
    /\ pc = "walk031"
    /\ walk_stack = <<[path |-> c.directory, rel |-> <<>>]>>
    /\ root = [path |-> c.directory, rel |-> <<>>]
    /\ dirs = <<>>
    /\ files = <<>>
    /\ gitignore_stack = IF c.global_gitignore_matcher.kind # "none"
                         THEN <<c.global_gitignore_matcher>> ELSE <<>>
    /\ stack_len_before = 0
    /\ current_gitignore = NoMatcher
    /\ file_list = <<>>
    /\ visited = {}

Init031 == (\E s \in Scn031 : InitWalk031(s.cfg, s.fs)) /\ RenderIdle /\ XformIdle

Next031 == VisitDir031 \/ ProcessFile031 \/ LeaveDir031 \/ Return031

Spec031 == Init031 /\ [][Next031]_vars

(***************************************************************************)
(* Content transforms: truncate_line and limit_consecutive_empty_lines of  *)
(* src/path2md/cli.py.                                                     *)
(***************************************************************************)
Quote == "'"
DQuote == "\""
\* the backtick character, one token
Backtick == "BACKTICK"

QuoteChars == {Quote, DQuote, Backtick}

\* " // (Line truncated to save space)"
TruncMarker == <<SP, "//", SP, "(Line truncated to save space)">>

\* Python indexing line[i]: a negative index counts from the end
PyIndex(line, i) == IF i < 0 THEN line[Len(line) + 1 + i] ELSE line[i + 1]

\* a variant that tests the last character of the line
truncate_lineByLast(line, truncln) ==
    IF Len(line) <= truncln THEN line
    ELSE IF Last(line) \in QuoteChars
    THEN SubSeq(line, 1, truncln) \o TruncMarker
    ELSE SubSeq(line, 1, truncln) \o TruncMarker \o <<Last(line)>>

\* lines 307-312
truncate_line(line, truncln) ==
    IF Len(line) <= truncln THEN line
    ELSE IF PyIndex(line, truncln - 1) \in QuoteChars
    THEN SubSeq(line, 1, truncln) \o TruncMarker
    ELSE SubSeq(line, 1, truncln) \o TruncMarker \o <<Last(line)>>

\* str.splitlines(): the pieces between newlines, without a final empty piece
SplitLines(content) ==
    LET parts == Split(content, <<NL>>)
    IN  IF Last(parts) = <<>> THEN SubSeq(parts, 1, Len(parts) - 1) ELSE parts

\* line 322: line.strip() == ""
IsBlank(line) == Strip(line) = <<>>

\* lines 320-327: the loop over the lines, with the running count of
\* consecutive blank lines
RECURSIVE KeepLines(_, _, _)
KeepLines(lines, empty_line_count, maxlnspace) ==
    IF lines = <<>> THEN <<>>
    ELSE LET count == IF IsBlank(Head(lines)) THEN empty_line_count + 1 ELSE 0
         IN  (IF count <= maxlnspace THEN <<Head(lines)>> ELSE <<>>)
             \o KeepLines(Tail(lines), count, maxlnspace)

\* lines 315-328 (maxlnspace is not None)
limit_consecutive_empty_lines(content, maxlnspace) ==
    JoinWith(KeepLines(SplitLines(content), 0, maxlnspace), <<NL>>)

\* line 351 for one line of a file
TruncateLine ==
    /\ tpc = "start"
    /\ tout' = truncate_line(tin, tn)
    /\ tpc' = "truncated"
    /\ UNCHANGED <<tin, tn>>
    /\ UNCHANGED <<walkVars, renderVars>>

\* line 354: blank-line collapsing of a text
Collapse ==
    /\ tpc = "start"
    /\ tout' = limit_consecutive_empty_lines(tin, tn)
    /\ tpc' = "collapsed"
    /\ UNCHANGED <<tin, tn>>
    /\ UNCHANGED <<walkVars, renderVars>>

\* blank-line collapsing run again, with the same threshold, on its own output
CollapseAgain ==
    /\ tpc = "collapsed"
    /\ tin' = tout
    /\ tout' = limit_consecutive_empty_lines(tout, tn)
    /\ tpc' = "collapsed twice"
    /\ UNCHANGED tn
    /\ UNCHANGED <<walkVars, renderVars>>

Texts == SeqsUpTo({"x", SP, NL, Quote, DQuote, Backtick}, MaxTextLen)

InitXform ==
    /\ WalkIdle
    /\ RenderIdle
    /\ tin \in Texts
    /\ tn \in 0..MaxThreshold
    /\ tout = <<>>
    /\ tpc = "start"

NextXform == TruncateLine \/ Collapse \/ CollapseAgain

SpecXform == InitXform /\ [][NextXform]_vars

(***************************************************************************)
(* Vocabulary of the properties: the tree as the claims speak of it.       *)
(***************************************************************************)
IsPrefix(p, q) == Len(p) <= Len(q) /\ SubSeq(q, 1, Len(p)) = p

Parent(d) == SubSeq(d, 1, Len(d) - 1)

RECURSIVE PathOf(_)
PathOf(d) == IF d = <<>> THEN cfg.directory ELSE OsPathJoin(PathOf(Parent(d)), Last(d))

FilePath(d, n) == OsPathJoin(PathOf(d), n)

Returned(d, n) == \E i \in DOMAIN file_list : file_list[i] = FilePath(d, n)

AllFiles == {k \in fs.dirs \X Range(AllFileNames) : k[2] \in fs.files[k[1]]}

HasIgnoreFile(d) == GitignoreName \in fs.files[d]

\* the loop over the files of d has passed file n
Examined(d, n) == d \in visited /\ ~(d = root.rel /\ n \in Range(files))

\* the matcher in force in directory d: its own when per-directory ignore
\* files are obeyed and d has one, else the global one, else none
MatcherAt(d) ==
    IF cfg.obey_gitignores /\ HasIgnoreFile(d) THEN LocalMatcher(d, fs.ignore[d])
    ELSE cfg.global_gitignore_matcher

NotIgnored(m, path) == m.kind = "none" \/ BaseName(path) \notin m.names

WithinDepth(d) == cfg.max_depth.isNone \/ Len(d) < cfg.max_depth.val

PassesWhitelistAndIgnore(d, n) ==
    /\ cfg.whitelist_files = {} \/ n \in cfg.whitelist_files
    /\ cfg.whitelist = {} \/ n \in cfg.whitelist \/ RelPath(FilePath(d, n), cfg.directory) \in cfg.whitelist
    /\ NotIgnored(MatcherAt(d), FilePath(d, n))

HasNulInPrefix(a) == a.nulAt # 0 /\ a.nulAt <= block_size

SizeAndContentOk(d, n) ==
    LET a == fs.attr[<<d, n>>]
    IN  /\ ~a.statErr
        /\ a.size <= cfg.max_size
        /\ ~HasNulInPrefix(a)
        /\ (cfg.extensions.isNone \/ Extension(n) \in cfg.extensions.val)

\* C1: with max_depth N, no returned file lies in a directory at depth >= N
\* below the root, and every file in a directory at depth < N that is
\* reached through kept directories and passes the admission checks is
\* returned.
C1_DepthLimit ==
    (pc = "done" /\ ~cfg.max_depth.isNone) =>
        \A k \in AllFiles :
            /\ Returned(k[1], k[2]) => Len(k[1]) < cfg.max_depth.val
            /\ (Len(k[1]) < cfg.max_depth.val /\ k[1] \in visited
                /\ PassesWhitelistAndIgnore(k[1], k[2]) /\ SizeAndContentOk(k[1], k[2])
                /\ ~fs.attr[k].readErr)
               => Returned(k[1], k[2])

\* C2: while a directory is visited, every per-directory matcher on the
\* ignore stack, and the active matcher, was loaded from a directory whose
\* subtree holds the visited directory: the matcher of A/B is absent while
\* a sibling A/C or an ancestor of A/B is visited.
C2_NoLeakOutsideSubtree ==
    (pc = "files" /\ cfg.obey_gitignores) =>
        /\ \A i \in DOMAIN gitignore_stack :
              gitignore_stack[i].kind = "local" => IsPrefix(gitignore_stack[i].src, root.rel)
        /\ current_gitignore.kind = "local" => IsPrefix(current_gitignore.src, root.rel)

C2_Witness ==
    /\ pc = "files"
    /\ cfg.obey_gitignores
    /\ root.rel = <<B, C>>
    /\ <<B, B>> \in visited
    /\ \A d \in fs.dirs : HasIgnoreFile(d) <=> d = <<B, B>>
    /\ gitignore_stack = <<>>

\* C3: while a directory is visited, the matcher of every ancestor that has
\* an ignore file is on the ignore stack, and a directory without an ignore
\* file of its own has its nearest such ancestor's matcher as the active one.
C3_MatcherCoversSubtree ==
    (pc = "files" /\ cfg.obey_gitignores) =>
        \A j \in 0..Len(root.rel) :
            LET D == SubSeq(root.rel, 1, j)
            IN  HasIgnoreFile(D) =>
                  /\ LocalMatcher(D, fs.ignore[D]) \in Range(gitignore_stack)
                  /\ (\A i \in (j + 1)..Len(root.rel) : ~HasIgnoreFile(SubSeq(root.rel, 1, i)))
                       => current_gitignore = LocalMatcher(D, fs.ignore[D])

\* C4: with a global matcher, no returned file and no traversed child
\* directory has a path the global matcher matches.
C4_GlobalAppliedEverywhere ==
    cfg.global_gitignore_matcher.kind # "none" =>
        /\ \A i \in DOMAIN file_list : ~Matches(cfg.global_gitignore_matcher, file_list[i])
        /\ \A d \in visited : d # <<>> => ~Matches(cfg.global_gitignore_matcher, PathOf(d))

\* C5: with a directory whitelist, every visited directory other than the
\* root is named in it, and the visited directories and the returned files
\* are those that the directory whitelist, the ignore matchers, the depth
\* limit and the file checks determine: omit-dirs and the combined
\* whitelist play no part in the choice of directories.
C5_DirWhitelistPrecedence ==
    cfg.whitelist_dirs # {} =>
        /\ \A d \in visited : d # <<>> => Last(d) \in cfg.whitelist_dirs
        /\ pc = "done" =>
             /\ visited = {d \in fs.dirs : /\ WithinDepth(d)
                                           /\ \A j \in 1..Len(d) :
                                                /\ d[j] \in cfg.whitelist_dirs
                                                /\ NotIgnored(MatcherAt(SubSeq(d, 1, j - 1)),
                                                              PathOf(SubSeq(d, 1, j)))}
             /\ \A k \in AllFiles :
                  Returned(k[1], k[2]) <=>
                      /\ k[1] \in visited
                      /\ PassesWhitelistAndIgnore(k[1], k[2])
                      /\ SizeAndContentOk(k[1], k[2])

C5_Witness ==
    /\ pc = "done"
    /\ cfg.whitelist_dirs = {B}
    /\ cfg.omit_dirs = {B, C}
    /\ cfg.whitelist = {C, B \o <<Sep>> \o X}
    /\ visited = {<<>>, <<B>>, <<B, B>>}
    /\ Returned(<<B>>, X)

\* C6 as stated: an examined file that passes the whitelist and ignore
\* checks is returned exactly when its size is <= max_size, its first 1024
\* bytes hold no NUL byte and its extension is allowed.
C6_AdmissionIff ==
    \A k \in AllFiles :
        (Examined(k[1], k[2]) /\ PassesWhitelistAndIgnore(k[1], k[2]))
            => (Returned(k[1], k[2]) <=> SizeAndContentOk(k[1], k[2]))

\* C6 as amended: ... exactly when its size is <= max_size, its first 1024
\* bytes can be read and hold no NUL byte, and its extension is allowed.
C6_AdmissionIffReadable ==
    \A k \in AllFiles :
        (Examined(k[1], k[2]) /\ PassesWhitelistAndIgnore(k[1], k[2]))
            => (Returned(k[1], k[2]) <=> (SizeAndContentOk(k[1], k[2]) /\ ~fs.attr[k].readErr))

C6_Witness ==
    /\ pc = "done"
    /\ cfg.max_size = MaxSizeArg
    /\ fs.attr[<<<<C>>, X>>].size = cfg.max_size
    /\ fs.attr[<<<<C>>, X>>].nulAt = 0
    /\ Returned(<<C>>, X)
    /\ ~Returned(<<C>>, F)

\* C7: with only a file-name whitelist configured and text files within the
\* size limit, list_files returns exactly the files of the tree whose base
\* name is in the whitelist, at every depth, each once.
OnlyFileWhitelist ==
    /\ cfg.whitelist_files # {}
    /\ cfg.max_depth.isNone /\ cfg.extensions.isNone
    /\ cfg.whitelist_dirs = {} /\ cfg.whitelist = {} /\ cfg.omit_dirs = {}
    /\ cfg.global_gitignore_matcher.kind = "none" /\ ~cfg.obey_gitignores
    /\ \A k \in AllFiles : LET a == fs.attr[k]
                           IN  ~a.statErr /\ ~a.readErr /\ a.nulAt = 0 /\ a.size <= cfg.max_size

C7_FileWhitelistExact ==
    OnlyFileWhitelist =>
        /\ pc # "raised"
        /\ pc = "done" =>
             /\ Range(file_list) = {FilePath(k[1], k[2]) : k \in {a \in AllFiles : a[2] \in cfg.whitelist_files}}
             /\ Len(file_list) = Cardinality(Range(file_list))

C7_Witness ==
    /\ pc = "done"
    /\ OnlyFileWhitelist
    /\ cfg.whitelist_files = {F}
    /\ \A d \in fs.dirs : Returned(d, F) /\ ~Returned(d, X)
    /\ \E d \in fs.dirs : Len(d) = TreeDepth

\* C8: an admission-time error on one file (no size, or no readable prefix)
\* never raises out of list_files: the file is rejected and the walk goes on.
C8_AdmissionErrorNotFatal ==
    /\ pc # "raised"
    /\ \A k \in AllFiles :
          (fs.attr[k].statErr \/ fs.attr[k].readErr) => ~Returned(k[1], k[2])

RelOf(file) == RelPath(file.path, base_directory)

Header(file) == <<Star, Star>> \o RelOf(file) \o <<Star, Star>>

Omitted(file) ==
    Extension(file.path) \in rcfg.omit_extensions \/ BaseName(file.path) \in rcfg.omit_files

\* C9: concatenate_markdown emits one unit per file, in the order of the
\* list; every unit names its file; the unit of a file that cannot be read
\* is the error placeholder, and the unit of a readable file is its fenced
\* content, whatever happens to the other files.
C9_OneUnitPerFileInOrder ==
    /\ Len(units) = ridx
    /\ rpc \in {"write", "written"} => Len(units) = Len(rfiles)
    /\ \A i \in DOMAIN units :
          LET f == rfiles[i]
          IN  /\ SubSeq(units[i], 1, Len(Header(f))) = Header(f)
              /\ (~Omitted(f) /\ ~f.readable) =>
                    units[i] = Header(f) \o <<SP, "(Error reading file:", SP, ErrText, ")", NL>>
              /\ (~Omitted(f) /\ f.readable) =>
                    units[i] = Header(f) \o <<NL, Fence>> \o Extension(f.path) \o <<NL>>
                               \o f.content \o <<NL, Fence, NL>>

C9_Witness ==
    /\ rpc = "written"
    /\ Len(rfiles) = MaxFiles
    /\ ~rfiles[1].readable /\ ~Omitted(rfiles[1])
    /\ rfiles[2].readable /\ ~Omitted(rfiles[2])
    /\ Len(units) = Len(rfiles)

\* C10: in output-dir mode, write_to_file writes exactly one file per
\* rendered unit, named after the unit's relative path, whose text is the
\* unit (header and body), for full, omitted and error units alike.
C10_LosslessSplit ==
    rpc = "written" =>
        /\ Len(written) = Len(units)
        /\ \A i \in DOMAIN written :
              /\ i \in DOMAIN units
              /\ written[i].name = sanitize_filename(RelOf(rfiles[i])) \o <<Dot, "md">>
              /\ written[i].text = units[i]

\* C11: blank-line collapsing is idempotent: collapsing the collapsed text
\* again with the same threshold gives the collapsed text.
C11_CollapseIdempotent ==
    tpc = "collapsed twice" => tout = tin

\* C12 as stated: a line of at most N characters is returned unchanged; a
\* longer line becomes its first N characters, the marker, and its last
\* character, the last character being left out exactly when the line's
\* last character is a quote character.
C12_TruncateByLastChar ==
    tpc = "truncated" =>
        tout = IF Len(tin) <= tn THEN tin
               ELSE SubSeq(tin, 1, tn) \o <<SP, "//", SP, "(Line truncated to save space)">>
                    \o (IF tin[Len(tin)] \in {"'", "\"", Backtick} THEN <<>> ELSE <<tin[Len(tin)]>>)

\* C12 as amended: ... the last character being left out exactly when the
\* last kept character, the N-th of the line, is a quote character (for
\* N = 0, where nothing is kept, when the line's last character is one).
C12_TruncateByLastKeptChar ==
    tpc = "truncated" =>
        tout = IF Len(tin) <= tn THEN tin
               ELSE SubSeq(tin, 1, tn) \o <<SP, "//", SP, "(Line truncated to save space)">>
                    \o (IF tin[IF tn = 0 THEN Len(tin) ELSE tn] \in {"'", "\"", Backtick}
                        THEN <<>> ELSE <<tin[Len(tin)]>>)

C12_Witness ==
    /\ tpc = "truncated"
    /\ tn = MaxThreshold
    /\ Len(tin) = tn + 1
    /\ tin[tn] = Quote
    /\ tin[Len(tin)] = "x"
    /\ tout = SubSeq(tin, 1, tn) \o TruncMarker

\* C13: in the 0.3.1 script, at every directory visit each matcher on the
\* ignore stack is the global matcher or was loaded from the visited
\* directory or one of its ancestors, so a sibling of D never has the
\* matcher of D, or of a directory below D, as its active matcher; and a
\* supplied global matcher is never popped.
C13_StackScoped031 ==
    /\ cfg.global_gitignore_matcher.kind # "none" =>
          (Len(gitignore_stack) > 0 /\ gitignore_stack[1] = cfg.global_gitignore_matcher)
    /\ (pc = "files031" /\ cfg.obey_gitignores) =>
          /\ \A i \in DOMAIN gitignore_stack :
                gitignore_stack[i].kind = "local" => IsPrefix(gitignore_stack[i].src, root.rel)
          /\ current_gitignore.kind = "local" => IsPrefix(current_gitignore.src, root.rel)

\* C14: in output-dir mode no two units with different relative paths are
\* written to the same output file: the files of the list have pairwise
\* different relative paths, and no two writes of a run name the same
\* output path, so that no unit's file is overwritten by a later unit.
C14_NoOutputCollision ==
    rpc = "written" =>
        \A i, j \in DOMAIN written : i # j => written[i].name # written[j].name

====
